---- MODULE Spec2Model ----
(***************************************************************************)
(* Model of src/src/App.tsx: Conway's Game of Life on a toroidal grid      *)
(* sized to the browser window, with a timed stepping loop, painting with  *)
(* the mouse, and the start / pause / step / clear controls.               *)
(*                                                                         *)
(* A grid is a JavaScript array of arrays of booleans, modelled as a       *)
(* function from 0-based row indices to functions from 0-based column      *)
(* indices to BOOLEAN.  A setGrid updater returns a record [grid, same]:   *)
(* the grid it returns, and whether that is the very object it was given   *)
(* (same = TRUE) or a newly allocated array (same = FALSE).  Every action  *)
(* models one event handler together with the re-render and the effects    *)
(* React runs after it.                                                    *)
(***************************************************************************)
EXTENDS Integers, FiniteSets, Sequences, TLC

\* The side of a cell in pixels
CELL_SIZE == 20

\* Bounds of the model: the viewport holds at most MaxSide rows, at most
\* MaxSide columns and at most MaxCells cells.
MaxSide == 3
MaxCells == 9

VARIABLES
    innerWidth,   \* window.innerWidth
    innerHeight,  \* window.innerHeight
    dimensions,   \* useState: {cols, rows}
    grid,         \* useState: the current generation
    running,      \* useState: the running flag
    isPainting,   \* useState: the painting flag
    intervals,    \* number of outstanding setInterval timers
    event,        \* history: the event handled last
    prev,         \* history: dimensions, running, isPainting and intervals
                  \* before that event
    sameGrid,     \* history: that event left the grid object in place
    threw,        \* history: that event's handler threw an exception
    neighborCalls,\* history: the calls of countNeighbors that event made
    paintedBefore,\* history, kept for a tick: the cell that the event just
                  \* before the tick turned alive; NoCell otherwise
    readGrid      \* history: the grid that event's handler read (the
                  \* currentGrid of its updater, or the grid start tested);
                  \* the resulting grid when the handler read none

vars == <<innerWidth, innerHeight, dimensions, grid, running, isPainting,
          intervals, event, prev, sameGrid, threw, neighborCalls,
          paintedBefore, readGrid>>

----------------------------------------------------------------------------
(* Helpers for JavaScript values *)

\* Variant of ceilDiv: Math.floor in place of Math.ceil
floorDiv(x, d) == x \div d

\* Math.ceil(x / CELL_SIZE) for an integer x >= 0
ceilDiv(x, d) == (x + d - 1) \div d

\* JavaScript's % : the result takes the sign of the dividend
jsRem(a, b) == IF a >= 0 THEN a % b ELSE 0 - ((0 - a) % b)

\* The index pairs of the cells of a grid
Cells(g) == UNION {{<<i, j>> : j \in DOMAIN g[i]} : i \in DOMAIN g}

\* array.length
length(arr) == Cardinality(DOMAIN arr)

\* What an updater returns: a newly allocated array, or the array it was given
newArray(cells) == [grid |-> cells, same |-> FALSE]
sameArray(currentGrid) == [grid |-> currentGrid, same |-> TRUE]

\* The sizes the viewport takes: for every number k of cells up to the
\* bound, one size that needs exactly k cells; a multiple of CELL_SIZE for
\* an even k, the smallest size that needs k cells for an odd k
sizeFor(k) ==
    IF k % 2 = 0 THEN k * CELL_SIZE ELSE (k - 1) * CELL_SIZE + 1
ViewportSizes ==
    {vp \in [width : {sizeFor(k) : k \in 0..MaxSide},
             height : {sizeFor(k) : k \in 0..MaxSide}] :
        ceilDiv(vp.width, CELL_SIZE) * ceilDiv(vp.height, CELL_SIZE) <= MaxCells}

----------------------------------------------------------------------------
(* Grid allocation *)

createEmptyGrid(rows, cols) ==
    [i \in 0..(rows - 1) |-> [j \in 0..(cols - 1) |-> FALSE]]

\* Math.random() < INITIAL_DENSITY is either outcome for every cell: the set
\* of the grids createRandomGrid can return
createRandomGrid(rows, cols) ==
    [0..(rows - 1) -> [0..(cols - 1) -> BOOLEAN]]

\* Array.prototype.every visits the elements in index order and stops at the
\* first one for which the callback is false; it is true for an empty array.
\* row.every((cell) => !cell), from index k on
RECURSIVE rowEvery(_, _)
rowEvery(row, k) ==
    IF k >= length(row) THEN TRUE
    ELSE IF ~(~row[k]) THEN FALSE
    ELSE rowEvery(row, k + 1)

\* grid.every((row) => row.every(...)), from index k on
RECURSIVE gridEvery(_, _)
gridEvery(g, k) ==
    IF k >= length(g) THEN TRUE
    ELSE IF ~rowEvery(g[k], 0) THEN FALSE
    ELSE gridEvery(g, k + 1)

\* Variant of isGridEmpty: grid.some in place of the outer grid.every
isGridEmptySome(g) == \E i \in DOMAIN g : rowEvery(g[i], 0)

isGridEmpty(g) == gridEvery(g, 0)

----------------------------------------------------------------------------
(* Neighbour counting on the torus *)

\* The body of the two nested loops for the offset (i, j): 1 when the
\* wrapped cell is alive, 0 when it is dead or when (i, j) = (0, 0)
neighborAt(g, row, col, i, j) ==
    LET rows == length(g)
        cols == length(g[0])
    IN  IF i = 0 /\ j = 0 THEN 0
        ELSE LET newRow == jsRem(row + i + rows, rows)
                 newCol == jsRem(col + j + cols, cols)
             IN  IF g[newRow][newCol] THEN 1 ELSE 0

\* for (i = -1..1) for (j = -1..1): the k-th iteration is the offset
\* (k \div 3 - 1, k % 3 - 1); the count accumulated from iteration k on
RECURSIVE countFrom(_, _, _, _)
countFrom(g, row, col, k) ==
    IF k > 8 THEN 0
    ELSE neighborAt(g, row, col, (k \div 3) - 1, (k % 3) - 1)
         + countFrom(g, row, col, k + 1)

\* Variant of countNeighbors: the `continue` for (0, 0) is missing, so the
\* cell itself is counted
countNeighborsWithSelf(g, row, col) ==
    countFrom(g, row, col, 0) + (IF g[row][col] THEN 1 ELSE 0)

countNeighbors(g, row, col) == countFrom(g, row, col, 0)

----------------------------------------------------------------------------
(* Generation step *)

\* Conway's rules for one cell, given its number of live neighbours
conwayRule(cell, neighbors) ==
    IF cell THEN (neighbors = 2 \/ neighbors = 3) ELSE neighbors = 3

\* Variant of the update: cells are rewritten one by one in row-major order
\* in a working copy, and the neighbour counts are read from that copy
RECURSIVE sweepInPlace(_, _)
sweepInPlace(cells, k) ==
    LET rows == length(cells)
        cols == IF rows = 0 THEN 0 ELSE length(cells[0])
    IN  IF k >= rows * cols THEN cells
        ELSE LET i == k \div cols
                 j == k % cols
             IN  sweepInPlace(
                   [cells EXCEPT ![i][j] =
                       conwayRule(cells[i][j], countNeighbors(cells, i, j))],
                   k + 1)

nextGenerationInPlace(currentGrid) ==
    newArray(sweepInPlace(currentGrid, 0))

\* Variant of the update: the `if (cell)` test is missing and the survival
\* rule is applied to every cell
nextGenerationSurvivalOnly(currentGrid) ==
    newArray(
        [i \in DOMAIN currentGrid |->
            [j \in DOMAIN currentGrid[i] |->
                LET neighbors == countNeighbors(currentGrid, i, j)
                IN  neighbors = 2 \/ neighbors = 3]])

\* Variant of the update: the result is built column by column
nextGenerationTransposed(currentGrid) ==
    LET rows == length(currentGrid)
        cols == IF rows = 0 THEN 0 ELSE length(currentGrid[0])
    IN  newArray(
            [j \in 0..(cols - 1) |->
                [i \in 0..(rows - 1) |->
                    conwayRule(currentGrid[i][j],
                               countNeighbors(currentGrid, i, j))]])

\* Variant of the update: the birth test is neighbors <= 3
nextGenerationBirthUpTo3(currentGrid) ==
    newArray(
        [i \in DOMAIN currentGrid |->
            [j \in DOMAIN currentGrid[i] |->
                LET cell == currentGrid[i][j]
                    neighbors == countNeighbors(currentGrid, i, j)
                IN  IF cell THEN (neighbors = 2 \/ neighbors = 3)
                    ELSE neighbors <= 3]])

\* The updater nextGeneration passes to setGrid: currentGrid.map over the
\* rows and row.map over the cells, every count read from currentGrid
nextGeneration(currentGrid) ==
    newArray(
        [i \in DOMAIN currentGrid |->
            [j \in DOMAIN currentGrid[i] |->
                LET cell == currentGrid[i][j]
                    neighbors == countNeighbors(currentGrid, i, j)
                IN  IF cell THEN (neighbors = 2 \/ neighbors = 3)
                    ELSE neighbors = 3]])

\* The number of times nextGeneration's inner map callback runs, and with it
\* countNeighbors: once for every cell of currentGrid
countNeighborsCalls(currentGrid) == Cardinality(Cells(currentGrid))

\* countNeighbors throws a TypeError when grid[0] is undefined, that is on a
\* grid with no rows: it reads grid[0].length
countNeighborsThrows(g) == length(g) = 0

\* Variant of nextGenerationThrows: the column count grid[0].length is read
\* once before the map, whether or not there is a cell
nextGenerationThrowsEager(currentGrid) == countNeighborsThrows(currentGrid)

\* The updater of nextGeneration throws when one of its calls of
\* countNeighbors does
nextGenerationThrows(currentGrid) ==
    countNeighborsCalls(currentGrid) > 0 /\ countNeighborsThrows(currentGrid)

----------------------------------------------------------------------------
(* Painting *)

\* Variant of setCellAlive: the early return for a live cell is missing
setCellAliveAlwaysCopies(currentGrid, row, col) ==
    newArray([currentGrid EXCEPT ![row][col] = TRUE])

\* Variant of setCellAlive: the new grid is not a copy of the current one
setCellAliveOnEmpty(currentGrid, row, col) ==
    IF currentGrid[row][col] THEN sameArray(currentGrid)
    ELSE newArray(
            [i \in DOMAIN currentGrid |->
                [j \in DOMAIN currentGrid[i] |-> i = row /\ j = col]])

\* The updater setCellAlive passes to setGrid
setCellAlive(currentGrid, row, col) ==
    IF currentGrid[row][col] THEN sameArray(currentGrid)
    ELSE newArray([currentGrid EXCEPT ![row][col] = TRUE])

----------------------------------------------------------------------------
(* State machine *)

NoArg == 0 - 1

NoCell == <<NoArg, NoArg>>

\* The last event applied setCellAlive(event.row, event.col) to readGrid
IsPaint ==
    \/ event.op = "mousedown"
    \/ event.op = "mouseenter" /\ prev.isPainting

Event(op) == [op |-> op, row |-> NoArg, col |-> NoArg]
CellEvent(op, i, j) == [op |-> op, row |-> i, col |-> j]

\* Variant of runSimulationEffect: the effect returns no cleanup, so an
\* interval that was set is never cleared
runSimulationEffectNoCleanup(oldRunning, newRunning, oldIntervals) ==
    IF newRunning = oldRunning THEN oldIntervals
    ELSE IF newRunning THEN oldIntervals + 1 ELSE oldIntervals

\* The "run simulation" effect and its cleanup, run after a render in which
\* `running` changed (nextGeneration keeps its identity across renders):
\* the cleanup of the previous run clears its interval, the new run sets one
\* when running is true
runSimulationEffect(oldRunning, newRunning, oldIntervals) ==
    IF newRunning = oldRunning THEN oldIntervals
    ELSE LET cleared == IF oldRunning THEN oldIntervals - 1 ELSE oldIntervals
         IN  IF newRunning THEN cleared + 1 ELSE cleared

Flags ==
    [dimensions |-> dimensions, running |-> running,
     isPainting |-> isPainting, intervals |-> intervals]

Init ==
    /\ \E vp \in ViewportSizes :
        /\ innerWidth = vp.width
        /\ innerHeight = vp.height
    /\ dimensions = [cols |-> ceilDiv(innerWidth, CELL_SIZE),
                     rows |-> ceilDiv(innerHeight, CELL_SIZE)]
    /\ grid = createEmptyGrid(dimensions.rows, dimensions.cols)
    /\ running = FALSE
    /\ isPainting = FALSE
    /\ intervals = 0
    /\ event = Event("mount")
    /\ prev = Flags
    /\ threw = FALSE
    /\ neighborCalls = 0
    /\ paintedBefore = NoCell
    /\ sameGrid = FALSE
    /\ readGrid = grid

\* Variant of HandleResize: the new grid is created with the dimensions of
\* the render before (the `dimensions` state) in place of newRows, newCols
HandleResizeOldDimensions ==
    /\ \E vp \in ViewportSizes :
        /\ innerWidth' = vp.width
        /\ innerHeight' = vp.height
    /\ LET newCols == ceilDiv(innerWidth', CELL_SIZE)
           newRows == ceilDiv(innerHeight', CELL_SIZE)
       IN  /\ dimensions' = [cols |-> newCols, rows |-> newRows]
           /\ grid' = createEmptyGrid(dimensions.rows, dimensions.cols)
    /\ running' = FALSE
    /\ intervals' = runSimulationEffect(running, FALSE, intervals)
    /\ event' = Event("resize")
    /\ prev' = Flags
    /\ threw' = FALSE
    /\ neighborCalls' = 0
    /\ paintedBefore' = NoCell
    /\ sameGrid' = FALSE
    /\ readGrid' = grid'
    /\ UNCHANGED isPainting

\* The window is resized and the 'resize' listener runs
HandleResize ==
    /\ \E vp \in ViewportSizes :
        /\ innerWidth' = vp.width
        /\ innerHeight' = vp.height
    /\ LET newCols == ceilDiv(innerWidth', CELL_SIZE)
           newRows == ceilDiv(innerHeight', CELL_SIZE)
       IN  /\ dimensions' = [cols |-> newCols, rows |-> newRows]
           /\ grid' = createEmptyGrid(newRows, newCols)
    /\ running' = FALSE
    /\ intervals' = runSimulationEffect(running, FALSE, intervals)
    /\ event' = Event("resize")
    /\ prev' = Flags
    /\ threw' = FALSE
    /\ neighborCalls' = 0
    /\ paintedBefore' = NoCell
    /\ sameGrid' = FALSE
    /\ readGrid' = grid'
    /\ UNCHANGED isPainting

\* Variant of Tick: the callback computes the next generation from a grid
\* captured earlier (the one the handler of the event before read) in place
\* of the currentGrid that setGrid passes to the updater
TickStale ==
    /\ intervals > 0
    /\ IF nextGenerationThrows(readGrid)
       THEN /\ grid' = grid
            /\ sameGrid' = TRUE
       ELSE /\ grid' = nextGeneration(readGrid).grid
            /\ sameGrid' = nextGeneration(readGrid).same
    /\ event' = Event("tick")
    /\ prev' = Flags
    /\ threw' = nextGenerationThrows(readGrid)
    /\ neighborCalls' = countNeighborsCalls(readGrid)
    /\ paintedBefore' = IF IsPaint /\ ~sameGrid
                        THEN <<event.row, event.col>> ELSE NoCell
    /\ readGrid' = grid
    /\ UNCHANGED <<innerWidth, innerHeight, dimensions, running, isPainting,
                   intervals>>

\* The interval fires: setInterval(nextGeneration, TICK_INTERVAL)
Tick ==
    /\ intervals > 0
    /\ IF nextGenerationThrows(grid)
       THEN /\ grid' = grid
            /\ sameGrid' = TRUE
       ELSE /\ grid' = nextGeneration(grid).grid
            /\ sameGrid' = nextGeneration(grid).same
    /\ event' = Event("tick")
    /\ prev' = Flags
    /\ threw' = nextGenerationThrows(grid)
    /\ neighborCalls' = countNeighborsCalls(grid)
    /\ paintedBefore' = IF IsPaint /\ ~sameGrid
                        THEN <<event.row, event.col>> ELSE NoCell
    /\ readGrid' = grid
    /\ UNCHANGED <<innerWidth, innerHeight, dimensions, running, isPainting,
                   intervals>>

\* Variant of Step: the button is not disabled while running
StepWhileRunning ==
    /\ IF nextGenerationThrows(grid)
       THEN /\ grid' = grid
            /\ sameGrid' = TRUE
       ELSE /\ grid' = nextGeneration(grid).grid
            /\ sameGrid' = nextGeneration(grid).same
    /\ event' = Event("step")
    /\ prev' = Flags
    /\ threw' = nextGenerationThrows(grid)
    /\ neighborCalls' = countNeighborsCalls(grid)
    /\ paintedBefore' = NoCell
    /\ readGrid' = grid
    /\ UNCHANGED <<innerWidth, innerHeight, dimensions, running, isPainting,
                   intervals>>

\* Click on the Step button, which is disabled while running
Step ==
    /\ ~running
    /\ IF nextGenerationThrows(grid)
       THEN /\ grid' = grid
            /\ sameGrid' = TRUE
       ELSE /\ grid' = nextGeneration(grid).grid
            /\ sameGrid' = nextGeneration(grid).same
    /\ event' = Event("step")
    /\ prev' = Flags
    /\ threw' = nextGenerationThrows(grid)
    /\ neighborCalls' = countNeighborsCalls(grid)
    /\ paintedBefore' = NoCell
    /\ readGrid' = grid
    /\ UNCHANGED <<innerWidth, innerHeight, dimensions, running, isPainting,
                   intervals>>

\* Variant of Start: the grid is never seeded
StartNoSeed ==
    /\ ~running
    /\ running' = TRUE
    /\ intervals' = runSimulationEffect(running, TRUE, intervals)
    /\ event' = Event("start")
    /\ prev' = Flags
    /\ threw' = FALSE
    /\ neighborCalls' = 0
    /\ paintedBefore' = NoCell
    /\ sameGrid' = TRUE
    /\ readGrid' = grid
    /\ UNCHANGED <<innerWidth, innerHeight, dimensions, grid, isPainting>>

\* Variant of Start: the grid is seeded whether or not it is empty
StartAlwaysSeeds ==
    /\ ~running
    /\ grid' \in createRandomGrid(dimensions.rows, dimensions.cols)
    /\ sameGrid' = FALSE
    /\ running' = TRUE
    /\ intervals' = runSimulationEffect(running, TRUE, intervals)
    /\ event' = Event("start")
    /\ prev' = Flags
    /\ threw' = FALSE
    /\ neighborCalls' = 0
    /\ paintedBefore' = NoCell
    /\ readGrid' = grid
    /\ UNCHANGED <<innerWidth, innerHeight, dimensions, isPainting>>

\* Click on the Start/Pause button while it shows Start: start()
Start ==
    /\ ~running
    /\ IF isGridEmpty(grid)
       THEN /\ grid' \in createRandomGrid(dimensions.rows, dimensions.cols)
            /\ sameGrid' = FALSE
       ELSE /\ grid' = grid
            /\ sameGrid' = TRUE
    /\ running' = TRUE
    /\ intervals' = runSimulationEffect(running, TRUE, intervals)
    /\ event' = Event("start")
    /\ prev' = Flags
    /\ threw' = FALSE
    /\ neighborCalls' = 0
    /\ paintedBefore' = NoCell
    /\ readGrid' = grid
    /\ UNCHANGED <<innerWidth, innerHeight, dimensions, isPainting>>

\* Variant of Pause: pausing also empties the grid
PauseClearsGrid ==
    /\ running
    /\ running' = FALSE
    /\ grid' = createEmptyGrid(dimensions.rows, dimensions.cols)
    /\ intervals' = runSimulationEffect(running, FALSE, intervals)
    /\ event' = Event("pause")
    /\ prev' = Flags
    /\ threw' = FALSE
    /\ neighborCalls' = 0
    /\ paintedBefore' = NoCell
    /\ sameGrid' = FALSE
    /\ readGrid' = grid
    /\ UNCHANGED <<innerWidth, innerHeight, dimensions, isPainting>>

\* Click on the Start/Pause button while it shows Pause
Pause ==
    /\ running
    /\ running' = FALSE
    /\ intervals' = runSimulationEffect(running, FALSE, intervals)
    /\ event' = Event("pause")
    /\ prev' = Flags
    /\ threw' = FALSE
    /\ neighborCalls' = 0
    /\ paintedBefore' = NoCell
    /\ sameGrid' = TRUE
    /\ readGrid' = grid
    /\ UNCHANGED <<innerWidth, innerHeight, dimensions, grid, isPainting>>

\* Variant of Clear: the grid is emptied but the simulation keeps running
ClearKeepsRunning ==
    /\ grid' = createEmptyGrid(dimensions.rows, dimensions.cols)
    /\ event' = Event("clear")
    /\ prev' = Flags
    /\ threw' = FALSE
    /\ neighborCalls' = 0
    /\ paintedBefore' = NoCell
    /\ sameGrid' = FALSE
    /\ readGrid' = grid'
    /\ UNCHANGED <<innerWidth, innerHeight, dimensions, running, isPainting,
                   intervals>>

\* Click on the Clear button: clear()
Clear ==
    /\ running' = FALSE
    /\ grid' = createEmptyGrid(dimensions.rows, dimensions.cols)
    /\ intervals' = runSimulationEffect(running, FALSE, intervals)
    /\ event' = Event("clear")
    /\ prev' = Flags
    /\ threw' = FALSE
    /\ neighborCalls' = 0
    /\ paintedBefore' = NoCell
    /\ sameGrid' = FALSE
    /\ readGrid' = grid'
    /\ UNCHANGED <<innerWidth, innerHeight, dimensions, isPainting>>

\* mousedown on the rendered cell (i, j): the cell's handler paints it, then
\* the event bubbles to the grid container, which enters painting mode
CellMouseDown ==
    \E i \in DOMAIN grid : \E j \in DOMAIN grid[i] :
        /\ grid' = setCellAlive(grid, i, j).grid
        /\ sameGrid' = setCellAlive(grid, i, j).same
        /\ isPainting' = TRUE
        /\ event' = CellEvent("mousedown", i, j)
        /\ prev' = Flags
        /\ threw' = FALSE
        /\ neighborCalls' = 0
        /\ paintedBefore' = NoCell
        /\ readGrid' = grid
        /\ UNCHANGED <<innerWidth, innerHeight, dimensions, running, intervals>>

\* mousedown on the grid container itself, outside every cell
GridMouseDown ==
    /\ isPainting' = TRUE
    /\ event' = Event("griddown")
    /\ prev' = Flags
    /\ threw' = FALSE
    /\ neighborCalls' = 0
    /\ paintedBefore' = NoCell
    /\ sameGrid' = TRUE
    /\ readGrid' = grid
    /\ UNCHANGED <<innerWidth, innerHeight, dimensions, grid, running,
                   intervals>>

\* Variant of CellMouseEnter: the cell is painted whatever isPainting is
CellMouseEnterAlwaysPaints ==
    \E i \in DOMAIN grid : \E j \in DOMAIN grid[i] :
        /\ grid' = setCellAlive(grid, i, j).grid
        /\ sameGrid' = setCellAlive(grid, i, j).same
        /\ event' = CellEvent("mouseenter", i, j)
        /\ prev' = Flags
        /\ threw' = FALSE
        /\ neighborCalls' = 0
        /\ paintedBefore' = NoCell
        /\ readGrid' = grid
        /\ UNCHANGED <<innerWidth, innerHeight, dimensions, running,
                       isPainting, intervals>>

\* mouseenter on the rendered cell (i, j): isPainting && setCellAlive(i, j)
CellMouseEnter ==
    \E i \in DOMAIN grid : \E j \in DOMAIN grid[i] :
        /\ IF isPainting
           THEN /\ grid' = setCellAlive(grid, i, j).grid
                /\ sameGrid' = setCellAlive(grid, i, j).same
           ELSE /\ grid' = grid
                /\ sameGrid' = TRUE
        /\ event' = CellEvent("mouseenter", i, j)
        /\ prev' = Flags
        /\ threw' = FALSE
        /\ neighborCalls' = 0
        /\ paintedBefore' = NoCell
        /\ readGrid' = grid
        /\ UNCHANGED <<innerWidth, innerHeight, dimensions, running,
                       isPainting, intervals>>

\* mouseup on the grid container
GridMouseUp ==
    /\ isPainting' = FALSE
    /\ event' = Event("mouseup")
    /\ prev' = Flags
    /\ threw' = FALSE
    /\ neighborCalls' = 0
    /\ paintedBefore' = NoCell
    /\ sameGrid' = TRUE
    /\ readGrid' = grid
    /\ UNCHANGED <<innerWidth, innerHeight, dimensions, grid, running,
                   intervals>>

\* mouseleave on the grid container
GridMouseLeave ==
    /\ isPainting' = FALSE
    /\ event' = Event("mouseleave")
    /\ prev' = Flags
    /\ threw' = FALSE
    /\ neighborCalls' = 0
    /\ paintedBefore' = NoCell
    /\ sameGrid' = TRUE
    /\ readGrid' = grid
    /\ UNCHANGED <<innerWidth, innerHeight, dimensions, grid, running,
                   intervals>>

Next ==
    \/ HandleResize
    \/ Tick
    \/ Step
    \/ Start
    \/ Pause
    \/ Clear
    \/ CellMouseDown
    \/ GridMouseDown
    \/ CellMouseEnter
    \/ GridMouseUp
    \/ GridMouseLeave

Spec == Init /\ [][Next]_vars

----------------------------------------------------------------------------
(* Vocabulary of the properties *)

LiveCells(g) == {c \in Cells(g) : g[c[1]][c[2]]}

\* rows >= 1 and cols >= 1
HasCells(g) == length(g) >= 1 /\ length(g[0]) >= 1

\* The last event applied nextGeneration to readGrid
IsGeneration == event.op \in {"tick", "step"}

\* The 8 offsets of the neighbourhood
Offsets == ({0 - 1, 0, 1} \X {0 - 1, 0, 1}) \ {<<0, 0>>}

\* The offsets whose cell, wrapped around the torus, is alive
LiveOffsets(g, row, col) ==
    {o \in Offsets :
        g[(row + o[1]) % length(g)][(col + o[2]) % length(g[0])]}

\* The 3x3 grids of the scenarios, by their live cells
GridOf(rows, cols, live) ==
    [i \in 0..(rows - 1) |-> [j \in 0..(cols - 1) |-> <<i, j>> \in live]]
Block == {<<0, 0>>, <<0, 1>>, <<1, 0>>, <<1, 1>>}

----------------------------------------------------------------------------
(* Properties *)

\* C1: after a tick or a step on a grid G with rows >= 1 and cols >= 1, every
\* cell (i, j) of the new grid is alive exactly when G[i][j] was alive with 2
\* or 3 live neighbours in G, or dead with exactly 3 live neighbours in G; the
\* counts are those of G, the generation before.
C1_ConwayRule ==
    (IsGeneration /\ HasCells(readGrid)) =>
        \A c \in Cells(readGrid) :
            LET n == countNeighbors(readGrid, c[1], c[2])
                was == readGrid[c[1]][c[2]]
            IN  grid[c[1]][c[2]] <=>
                    ((was /\ n \in {2, 3}) \/ (~was /\ n = 3))

\* A tick has been applied to a grid in which one cell was born and another
\* one survived
C1_Witness ==
    /\ event.op = "tick"
    /\ HasCells(readGrid)
    /\ \E c \in Cells(readGrid) : ~readGrid[c[1]][c[2]] /\ grid[c[1]][c[2]]
    /\ \E c \in Cells(readGrid) : readGrid[c[1]][c[2]] /\ grid[c[1]][c[2]]

\* C2: a tick or a step yields a grid with as many rows as the grid it was
\* applied to, every row as long as the corresponding row of that grid.
C2_DimensionsPreserved ==
    IsGeneration =>
        /\ length(grid) = length(readGrid)
        /\ DOMAIN grid = DOMAIN readGrid
        /\ \A i \in DOMAIN readGrid :
            /\ length(grid[i]) = length(readGrid[i])
            /\ DOMAIN grid[i] = DOMAIN readGrid[i]

\* A step has been applied to a grid of 2 rows and 3 columns
C2_Witness ==
    /\ event.op = "step"
    /\ length(readGrid) = 2
    /\ length(readGrid[0]) = 3
    /\ LiveCells(readGrid) # {}

\* C3: for every grid with rows >= 1 and cols >= 1 that nextGeneration is
\* applied to and every cell of it, countNeighbors is the number of the 8
\* offsets whose cell, wrapped modulo rows and cols, is alive, a value in
\* 0..8; on the 3x3 grid whose only live cell is (0,0) it is 1 at (2,2).
C3_CountNeighbors ==
    (IsGeneration /\ HasCells(readGrid)) =>
        /\ \A c \in Cells(readGrid) :
            /\ countNeighbors(readGrid, c[1], c[2])
                  = Cardinality(LiveOffsets(readGrid, c[1], c[2]))
            /\ countNeighbors(readGrid, c[1], c[2]) \in 0..8
        /\ readGrid = GridOf(3, 3, {<<0, 0>>}) =>
              countNeighbors(readGrid, 2, 2) = 1

\* nextGeneration has been applied to the 3x3 grid whose only live cell is
\* (0,0)
C3_Witness ==
    /\ IsGeneration
    /\ readGrid = GridOf(3, 3, {<<0, 0>>})

\* C4 as stated: start on an entirely dead grid results in a grid with at
\* least one live cell and in running = TRUE.
C4_StartSeedsLiveCell ==
    (event.op = "start" /\ LiveCells(readGrid) = {}) =>
        (LiveCells(grid) # {} /\ running)

\* C4 amended: start on an entirely dead grid replaces it with a newly created
\* grid of the current dimensions, every cell of which is alive or dead (it
\* may have no live cell), and results in running = TRUE.
C4_StartSeedsRandomGrid ==
    (event.op = "start" /\ LiveCells(readGrid) = {}) =>
        /\ ~sameGrid
        /\ grid \in createRandomGrid(dimensions.rows, dimensions.cols)
        /\ dimensions = prev.dimensions
        /\ running

\* start has been called on an entirely dead grid with cells and the seed has
\* live cells
C4_Witness ==
    /\ event.op = "start"
    /\ HasCells(readGrid)
    /\ LiveCells(readGrid) = {}
    /\ LiveCells(grid) # {}
    /\ running

\* C5: after clear every cell is dead, the grid has dimensions.rows rows of
\* dimensions.cols cells, the dimensions are those before clear, and running
\* is FALSE.
C5_Clear ==
    event.op = "clear" =>
        /\ LiveCells(grid) = {}
        /\ length(grid) = dimensions.rows
        /\ \A i \in DOMAIN grid : length(grid[i]) = dimensions.cols
        /\ dimensions = prev.dimensions
        /\ ~running

\* clear has been called while running and painting, on a grid with cells
C5_Witness ==
    /\ event.op = "clear"
    /\ prev.running
    /\ prev.isPainting
    /\ HasCells(grid)

\* C6: painting a cell that is already alive returns the very grid object it
\* was given, with the same content; and on every grid, painting a cell a
\* second time returns the grid the first painting returned.
C6_PaintAliveIsNoOp ==
    /\ (IsPaint /\ readGrid[event.row][event.col]) =>
          (sameGrid /\ grid = readGrid)
    /\ \A c \in Cells(grid) :
          LET once == setCellAlive(grid, c[1], c[2]).grid
          IN  setCellAlive(once, c[1], c[2]) = sameArray(once)

\* A cell that was already alive has been painted again with a mousedown
C6_Witness ==
    /\ event.op = "mousedown"
    /\ readGrid[event.row][event.col]
    /\ grid[event.row][event.col]

\* C7: after painting the cell (row, col), that cell is alive, every other
\* cell has the value it had, no cell that was alive is dead, and the grid
\* dimensions, the running flag and the dimensions state are unchanged.
C7_PaintOnlySetsAlive ==
    IsPaint =>
        /\ grid[event.row][event.col]
        /\ DOMAIN grid = DOMAIN readGrid
        /\ \A i \in DOMAIN readGrid : DOMAIN grid[i] = DOMAIN readGrid[i]
        /\ \A c \in Cells(readGrid) \ {<<event.row, event.col>>} :
              grid[c[1]][c[2]] = readGrid[c[1]][c[2]]
        /\ \A c \in Cells(readGrid) : readGrid[c[1]][c[2]] => grid[c[1]][c[2]]
        /\ running = prev.running
        /\ dimensions = prev.dimensions

\* While painting and running, the mouse has entered a dead cell of a grid
\* with other live cells
C7_Witness ==
    /\ event.op = "mouseenter"
    /\ prev.isPainting
    /\ running
    /\ ~readGrid[event.row][event.col]
    /\ LiveCells(readGrid) # {}
    /\ LiveCells(grid) = LiveCells(readGrid) \cup {<<event.row, event.col>>}

\* C8: isGridEmpty is true of a grid exactly when none of its cells is alive,
\* also for a grid with no rows or no columns; start, which calls it, keeps
\* the grid object exactly when the grid has a live cell.
C8_IsGridEmpty ==
    /\ isGridEmpty(grid) <=> (\A c \in Cells(grid) : ~grid[c[1]][c[2]])
    /\ isGridEmpty(readGrid) <=> (LiveCells(readGrid) = {})
    /\ event.op = "start" => (sameGrid <=> LiveCells(readGrid) # {})

\* start has tested a grid with rows but no columns and found it empty
C8_Witness ==
    /\ event.op = "start"
    /\ length(readGrid) >= 1
    /\ length(readGrid[0]) = 0
    /\ ~sameGrid

\* C9: on the 3x3 grid whose live cells are exactly the block (0,0), (0,1),
\* (1,0), (1,1), a tick or a step returns a grid equal to its input.
C9_BlockIsStill ==
    (IsGeneration /\ readGrid = GridOf(3, 3, Block)) => grid = readGrid

\* A tick has been applied to the 3x3 block
C9_Witness ==
    /\ event.op = "tick"
    /\ readGrid = GridOf(3, 3, Block)
    /\ LiveCells(grid) = Block

\* C10 as stated: a tick or a step on a grid with rows >= 1 and cols >= 1 and
\* exactly one live cell returns an entirely dead grid.
C10_IsolatedCellDies ==
    (IsGeneration /\ HasCells(readGrid)
        /\ Cardinality(LiveCells(readGrid)) = 1) =>
        LiveCells(grid) = {}

\* C10 amended: a tick or a step on a grid with rows >= 2 and cols >= 2 and
\* exactly one live cell returns an entirely dead grid.
C10_IsolatedCellDiesOnWideGrid ==
    (IsGeneration /\ length(readGrid) >= 2 /\ length(readGrid[0]) >= 2
        /\ Cardinality(LiveCells(readGrid)) = 1) =>
        LiveCells(grid) = {}

\* nextGeneration has been applied to the 3x3 grid whose only live cell is
\* the centre
C10_Witness ==
    /\ IsGeneration
    /\ readGrid = GridOf(3, 3, {<<1, 1>>})
    /\ LiveCells(grid) = {}

\* C11: a step is only ever taken while running is FALSE and no interval is
\* outstanding; it replaces the grid with one nextGeneration of the grid it
\* was applied to and leaves running FALSE.
C11_StepOnlyWhileIdle ==
    event.op = "step" =>
        /\ ~prev.running
        /\ prev.intervals = 0
        /\ ~running
        /\ intervals = 0
        /\ ~sameGrid
        /\ grid = nextGeneration(readGrid).grid

\* A step has been taken on a grid that it changed
C11_Witness ==
    /\ event.op = "step"
    /\ ~running
    /\ LiveCells(readGrid) # {}
    /\ grid # readGrid

\* C12: at most one interval is outstanding, one is outstanding exactly when
\* running is TRUE, and a tick only ever fires while running is TRUE.
C12_OneTimerIffRunning ==
    /\ intervals \in {0, 1}
    /\ (intervals = 1) <=> running
    /\ event.op = "tick" => (prev.running /\ running)
    /\ event.op \in {"pause", "clear", "resize"} =>
          (~running /\ intervals = 0)

\* The simulation has been stopped by a resize while an interval was
\* outstanding
C12_Witness ==
    /\ event.op = "resize"
    /\ prev.running
    /\ prev.intervals = 1
    /\ intervals = 0

\* C13: a cell can be painted while running, and the grid after a tick is
\* nextGeneration of the grid that was current when the tick fired, in which
\* the cell painted by the event just before the tick is alive.
C13_TickSeesPaint ==
    /\ (IsPaint /\ prev.running) =>
          (running /\ grid[event.row][event.col])
    /\ event.op = "tick" =>
          /\ grid = nextGeneration(readGrid).grid
          /\ paintedBefore # NoCell =>
                readGrid[paintedBefore[1]][paintedBefore[2]]

\* A tick has fired right after a cell was painted, and the painted cell
\* changed the generation the tick computed
C13_Witness ==
    /\ event.op = "tick"
    /\ paintedBefore # NoCell
    /\ readGrid[paintedBefore[1]][paintedBefore[2]]
    /\ grid # nextGeneration(
                 [readGrid EXCEPT ![paintedBefore[1]][paintedBefore[2]] = FALSE]
               ).grid

\* C14: after a resize, dimensions.cols is the least number of cells of 20
\* pixels that cover the viewport width and dimensions.rows the least number
\* that cover its height, the grid is a new all-dead grid of exactly those
\* dimensions, and running is FALSE.
C14_Resize ==
    event.op = "resize" =>
        /\ dimensions.cols * 20 >= innerWidth
        /\ (dimensions.cols - 1) * 20 < innerWidth
        /\ dimensions.rows * 20 >= innerHeight
        /\ (dimensions.rows - 1) * 20 < innerHeight
        /\ dimensions.cols >= 0 /\ dimensions.rows >= 0
        /\ ~sameGrid
        /\ length(grid) = dimensions.rows
        /\ \A i \in DOMAIN grid : length(grid[i]) = dimensions.cols
        /\ LiveCells(grid) = {}
        /\ ~running

\* A resize while running has changed the dimensions, to a viewport whose
\* width is no multiple of the cell size
C14_Witness ==
    /\ event.op = "resize"
    /\ prev.running
    /\ dimensions.rows # prev.dimensions.rows
    /\ dimensions.cols # prev.dimensions.cols
    /\ innerWidth % CELL_SIZE # 0
    /\ HasCells(grid)

\* C15: in every reachable state the grid has exactly dimensions.rows rows and
\* every row has exactly dimensions.cols cells.
C15_GridMatchesDimensions ==
    /\ DOMAIN grid = 0..(dimensions.rows - 1)
    /\ \A i \in DOMAIN grid : DOMAIN grid[i] = 0..(dimensions.cols - 1)
    /\ length(grid) = dimensions.rows
    /\ \A i \in DOMAIN grid : length(grid[i]) = dimensions.cols

\* A tick has stepped a populated grid of 2 rows and 3 columns
C15_Witness ==
    /\ event.op = "tick"
    /\ dimensions.rows = 2
    /\ dimensions.cols = 3
    /\ LiveCells(grid) # {}

\* C16: start on a grid with a live cell leaves the grid object and its
\* content as they were and only sets running; start seeds a new grid only
\* when the grid it tested had no live cell; start applies no generation step
\* (it makes no call of countNeighbors); and the grid after every event other
\* than start is determined by the grid before: the next generation after a
\* tick or a step, the grid with one more live cell after a paint, the dead
\* grid after clear and resize, the same grid otherwise.
C16_SeedOnlyOnStartWhenDead ==
    /\ event.op = "start" =>
          /\ running /\ ~prev.running
          /\ dimensions = prev.dimensions
          /\ isPainting = prev.isPainting
          /\ neighborCalls = 0
          /\ LiveCells(readGrid) # {} => (sameGrid /\ grid = readGrid)
          /\ ~sameGrid => LiveCells(readGrid) = {}
    /\ IsGeneration => grid = nextGeneration(readGrid).grid
    /\ IsPaint =>
          LiveCells(grid) = LiveCells(readGrid) \cup {<<event.row, event.col>>}
    /\ event.op \in {"clear", "resize", "mount"} => LiveCells(grid) = {}
    /\ (event.op \in {"pause", "mouseup", "mouseleave", "griddown"}
          \/ (event.op = "mouseenter" /\ ~prev.isPainting)) =>
          (sameGrid /\ grid = readGrid)

\* start has been called on a grid with a live cell and has kept it
C16_Witness ==
    /\ event.op = "start"
    /\ LiveCells(readGrid) # {}
    /\ sameGrid
    /\ grid = readGrid
    /\ running

\* C17: pause is taken from the running state, sets running to FALSE and
\* leaves the grid object, its dimensions and every cell, the dimensions
\* state and the painting flag as they were.
C17_PauseKeepsGrid ==
    event.op = "pause" =>
        /\ prev.running
        /\ ~running
        /\ sameGrid
        /\ grid = readGrid
        /\ dimensions = prev.dimensions
        /\ isPainting = prev.isPainting

\* The simulation has been paused on a populated grid while painting
C17_Witness ==
    /\ event.op = "pause"
    /\ prev.running
    /\ prev.isPainting
    /\ LiveCells(grid) # {}

\* C18: the painting flag is TRUE after a mousedown inside the grid, FALSE
\* after a mouseup or a mouseleave on the grid container and after mount, and
\* as it was after every other event; a mousedown on a cell sets that cell
\* alive, a mouseenter on a cell sets it alive when the flag was TRUE and
\* leaves the grid as it was when the flag was FALSE, and a mouseup or a
\* mouseleave leaves the grid as it was.
C18_PaintingFlag ==
    /\ event.op \in {"mousedown", "griddown"} => isPainting
    /\ event.op = "mousedown" => grid[event.row][event.col]
    /\ event.op \in {"mouseup", "mouseleave"} =>
          (~isPainting /\ sameGrid /\ grid = readGrid)
    /\ event.op = "mount" => ~isPainting
    /\ event.op \notin {"mousedown", "griddown", "mouseup", "mouseleave",
                        "mount"} =>
          isPainting = prev.isPainting
    /\ event.op = "mouseenter" =>
          /\ prev.isPainting => grid[event.row][event.col]
          /\ ~prev.isPainting => (sameGrid /\ grid = readGrid)

\* The mouse has entered a dead cell of a populated grid while the flag was
\* FALSE, and the cell is still dead
C18_Witness ==
    /\ event.op = "mouseenter"
    /\ ~prev.isPainting
    /\ ~isPainting
    /\ ~grid[event.row][event.col]
    /\ LiveCells(grid) # {}

\* C19: while the grid has no rows or no columns, no handler throws, the grid
\* has no cell, createEmptyGrid yields a grid without cells, isGridEmpty is
\* TRUE of it, a tick or a step makes no call of countNeighbors, start sets
\* running and clear resets it.
C19_ZeroDimensionIsNoError ==
    (dimensions.rows = 0 \/ dimensions.cols = 0) =>
        /\ ~threw
        /\ Cells(grid) = {}
        /\ Cells(createEmptyGrid(dimensions.rows, dimensions.cols)) = {}
        /\ isGridEmpty(grid)
        /\ neighborCalls = 0
        /\ IsGeneration => (Cells(readGrid) = {} /\ grid = readGrid)
        /\ event.op = "start" => running
        /\ event.op = "clear" => ~running

\* A tick has fired on a grid with no rows
C19_Witness ==
    /\ event.op = "tick"
    /\ dimensions.rows = 0
    /\ dimensions.cols > 0
    /\ length(readGrid) = 0
    /\ ~threw

\* C20: for every dimensions, a tick or a step on an entirely dead grid
\* yields an entirely dead grid, and so does every event other than a paint
\* and a start: a grid that is entirely dead stays so until a cell is painted
\* or start seeds it.
C20_DeadGridIsAbsorbing ==
    (LiveCells(readGrid) = {} /\ ~IsPaint /\ event.op # "start") =>
        /\ LiveCells(grid) = {}
        /\ IsGeneration => LiveCells(nextGeneration(readGrid).grid) = {}

\* A tick has fired on an entirely dead grid with cells
C20_Witness ==
    /\ event.op = "tick"
    /\ HasCells(readGrid)
    /\ LiveCells(readGrid) = {}
    /\ LiveCells(grid) = {}

====
